---- MODULE Spec2Model ----
(***************************************************************************)
(* HDSTP: a model of src/src/lib.rs (packet, PacketStream, the retry       *)
(* engine handle_timeout, the Client and Server routines).                 *)
(*                                                                         *)
(* transfer.rs adds send_with_retry.                                       *)
(*                                                                         *)
(* A behaviour exercises one of these programs:                            *)
(*   SpecRetry  handle_timeout driven by an action whose k-th invocation   *)
(*              returns script[k];                                         *)
(*   SpecChan   one PacketStream with a writer and a reader;               *)
(*   SpecProto  a Client, a Server, or both as FileTransfer builds them,   *)
(*              each owning its PacketStream, with the tasks their         *)
(*              routines spawn.                                            *)
(*   SpecSendRetry  send_with_retry(data, max_retries) driven by a        *)
(*              send_file whose k-th call returns script[k];               *)
(*   SpecPacket Packet::new on the arguments script[k], the packet then    *)
(*              handed to send_packet.                                     *)
(* Spec is the union of the first three; LiveSpec and LiveSpecAll add the  *)
(* scheduler's fairness.                                                   *)
(* Objects a program does not build are absent from the functions below.   *)
(***************************************************************************)
EXTENDS Naturals, Sequences, FiniteSets

VARIABLES
    script,     \* script[k]: the result of the k-th call of the scripted action()
                \* or send_file(); in SpecPacket the arguments of the k-th Packet::new
    eng,        \* eng[c]: the handle_timeout call running for caller c; the
                \* send_with_retry call under "send_with_retry"
    cur,        \* cur[r]: the routine role r is executing, or "none"
    rets,       \* rets[r]: the routines of role r that have returned, in order
    conn,       \* conn[r]: the Connection of role r
    stream,     \* stream[o]: the PacketStream owned by o (buffer and Notify)
    task,       \* task[o]: the receive waits issued on o's stream, in issue order
    written,    \* written[o]: every packet pushed into o's stream, in order
    readLog,    \* readLog[o]: every packet a read popped from o's stream, in order
    pre         \* pre[o]: the packets o's stream held when its owner was built

vars == <<script, eng, cur, rets, conn, stream, task, written, readLog, pre>>

-----------------------------------------------------------------------------
(* Bounds of the model *)

MaxCalls   == 4    \* length of the scripted behaviour of action()
MaxWrites  == 3    \* SpecChan: packets the writer writes
MaxReads   == 3    \* SpecChan: receives the reader issues
MaxPreload == 2    \* Spec: packets a stream holds when its owner is built
MaxChunks  == 2    \* Spec: send_data calls of the client
MaxRecv    == 1    \* Spec: receive_data calls of the server
MaxPayload == 2    \* SpecPacket: bytes of a payload

-----------------------------------------------------------------------------
(* Packet (lib.rs 11-45) *)

DATA           == "DATA"
RETRANSMISSION == "RETRANSMISSION"
SYN            == "SYN"
SYN_ACK        == "SYN_ACK"
ACK            == "ACK"
NAK            == "NAK"
FIN            == "FIN"
RST            == "RST"

PacketType == {DATA, RETRANSMISSION, SYN, SYN_ACK, ACK, NAK, FIN, RST}

\* length, sequence_no: u32.  Every number of this model stays far below 2^32,
\* so u32 arithmetic is plain arithmetic here.

RECURSIVE count_ones(_)
count_ones(byte) == IF byte = 0 THEN 0 ELSE (byte % 2) + count_ones(byte \div 2)

RECURSIVE SumOnes(_)
SumOnes(data) ==
    IF data = <<>> THEN 0 ELSE count_ones(Head(data)) + SumOnes(Tail(data))

check_parity_NoMod(data) ==
    LET ones_count == SumOnes(data)
    IN  IF ones_count = 0 THEN 0 ELSE 15

check_parity(data) ==
    LET ones_count == SumOnes(data) % 2
    IN  IF ones_count = 0 THEN 0 ELSE 15

PacketNew(packet_type, sequence_no, data) ==
    [length      |-> Len(data) + 9,
     packet_type |-> packet_type,
     sequence_no |-> sequence_no,
     data        |-> data,
     parity      |-> check_parity(data)]

verify_parity(p) == p.parity = check_parity(p.data)

NoPacket == [packet_type |-> "None"]

-----------------------------------------------------------------------------
(* PacketStream (lib.rs 47-88): a VecDeque and a tokio Notify.  The Notify  *)
(* holds at most one stored permit and a FIFO list of waiting tasks.        *)

PacketStreamNew == [buffer |-> <<>>, permit |-> FALSE, waiters |-> <<>>]

\* A world w is what one owner's code can touch:
\*   [st: its stream, tk: the waits on it, wr: written, rd: readLog, cn: its Connection]
\* notify_one: wake the oldest waiter, or store the (single) permit when nobody waits.
NotifyOne(w) ==
    IF w.st.waiters /= <<>>
    THEN [w EXCEPT !.st.waiters = Tail(@),
                   !.tk[Head(w.st.waiters)].pc = "notified"]
    ELSE [w EXCEPT !.st.permit = TRUE]

\* write: push_back, then notify_one
write(w, packet) ==
    NotifyOne([w EXCEPT !.st.buffer = Append(@, packet), !.wr = Append(@, packet)])

pop_back(buffer) ==
    IF buffer = <<>> THEN [packet |-> NoPacket, rest |-> <<>>]
    ELSE [packet |-> buffer[Len(buffer)], rest |-> SubSeq(buffer, 1, Len(buffer) - 1)]

\* what read() does once notified() has resolved: None on an empty buffer,
\* else Some(buffer.pop_front().unwrap())
pop_front(buffer) ==
    IF buffer = <<>> THEN [packet |-> NoPacket, rest |-> <<>>]
    ELSE [packet |-> Head(buffer), rest |-> Tail(buffer)]

-----------------------------------------------------------------------------
(* handle_timeout (lib.rs 112-131) *)

MaxAttempts == 3

Outcome == {"Ok", "TimedOut", "InvalidData", "Other"}

\* let mut retries = 0
HT_Start == [pc |-> "loop", retries |-> 0, calls |-> 0, result |-> "none"]

HT_Continue_OneMore(e) == e.retries <= MaxAttempts

\* while retries < 3
HT_Continue(e) == e.retries < MaxAttempts

HT_Match_RetryAnyErr(e, r) ==
    IF r = "Ok" THEN [e EXCEPT !.calls = @ + 1, !.pc = "ret", !.result = "Ok"]
    ELSE [e EXCEPT !.calls = @ + 1, !.retries = @ + 1]

HT_Match_NoCount(e, r) ==
    CASE r = "Ok"       -> [e EXCEPT !.calls = @ + 1, !.pc = "ret", !.result = "Ok"]
      [] r = "TimedOut" -> [e EXCEPT !.calls = @ + 1]
      [] OTHER          -> [e EXCEPT !.calls = @ + 1, !.pc = "ret", !.result = r]

\* match result, after action() returned r; the TimedOut arm sleeps for
\* timeout and goes round the loop again
HT_Match(e, r) ==
    CASE r = "Ok"       -> [e EXCEPT !.calls = @ + 1, !.pc = "ret", !.result = "Ok"]
      [] r = "TimedOut" -> [e EXCEPT !.calls = @ + 1, !.retries = @ + 1]
      [] OTHER          -> [e EXCEPT !.calls = @ + 1, !.pc = "ret", !.result = r]

\* the Err after the loop
HT_Exhausted(e) == [e EXCEPT !.pc = "ret", !.result = "TimedOut"]

-----------------------------------------------------------------------------
(* The closures the routines pass to handle_timeout: what each spawned task *)
(* does with the value receive_packet returned (p, or NoPacket for None).   *)

\* Client::handshake, lib.rs 157-171
ClientHandshakeTask(w, i, p) ==
    IF p = NoPacket THEN [w EXCEPT !.tk[i].result = "TimedOut"]
    ELSE IF p.packet_type /= SYN_ACK THEN [w EXCEPT !.tk[i].result = "InvalidData"]
    ELSE LET w1 == [w EXCEPT !.cn.server_isn = p.sequence_no, !.tk[i].result = "Ok"]
         IN  write(w1, PacketNew(ACK, w1.cn.server_isn + 1, <<>>))

\* Client::send_data, lib.rs 189-199
ClientSendDataTask(w, i, p) ==
    IF p = NoPacket THEN [w EXCEPT !.tk[i].result = "TimedOut"]
    ELSE [w EXCEPT !.tk[i].result = "Ok"]

\* Client::terminate, lib.rs 215-223
ClientTerminateTask(w, i, p) ==
    IF p /= NoPacket /\ p.packet_type /= ACK
    THEN [w EXCEPT !.tk[i].result = "InvalidData"]
    ELSE [w EXCEPT !.tk[i].result = "Ok"]

\* Server::handshake, lib.rs 249-265
ServerHandshakeTask(w, i, p) ==
    IF p = NoPacket THEN [w EXCEPT !.tk[i].result = "TimedOut"]
    ELSE IF p.packet_type /= SYN THEN [w EXCEPT !.tk[i].result = "InvalidData"]
    ELSE LET w1 == [w EXCEPT !.cn.client_isn = p.sequence_no, !.tk[i].result = "Ok"]
         IN  write(w1, PacketNew(SYN_ACK, w1.cn.client_isn + 1, <<>>))

\* Server::receive_data, lib.rs 277-293
ServerReceiveDataTask(w, i, p) ==
    LET w1 == [w EXCEPT !.tk[i].result = "Ok"]
    IN  IF p /= NoPacket /\ p.packet_type = DATA
        THEN IF verify_parity(p)
             THEN write(w1, PacketNew(ACK, p.sequence_no, <<>>))
             ELSE write(w1, PacketNew(NAK, p.sequence_no, <<>>))
        ELSE w1

\* a bare receive_packet(timeout).await, lib.rs 107-109
ReceiveOnly(w, i, p) == [w EXCEPT !.tk[i].result = IF p = NoPacket THEN "None" ELSE "Some"]

Closure(w, i, p) ==
    LET k == w.tk[i].kind
    IN  CASE k = "client.handshake"    -> ClientHandshakeTask(w, i, p)
          [] k = "client.send_data"    -> ClientSendDataTask(w, i, p)
          [] k = "client.terminate"    -> ClientTerminateTask(w, i, p)
          [] k = "server.handshake"    -> ServerHandshakeTask(w, i, p)
          [] k = "server.receive_data" -> ServerReceiveDataTask(w, i, p)
          [] OTHER                     -> ReceiveOnly(w, i, p)

-----------------------------------------------------------------------------
(* read / read_with_timeout (lib.rs 65-88) as run by wait i of a world *)

\* the packet at the front of a buffer, if any
Front(buffer) == IF buffer = <<>> THEN NoPacket ELSE Head(buffer)

NewWait(kind) ==
    [kind |-> kind, pc |-> "spawned", got |-> NoPacket, result |-> "none",
     front |-> NoPacket]

\* receive_packet returned p to wait i
Complete(w, i, p) ==
    Closure([w EXCEPT !.tk[i].pc = "done", !.tk[i].got = p,
                      !.rd = IF p = NoPacket THEN @ ELSE Append(@, p)], i, p)

\* first poll of select!: notified() takes the stored permit and read() goes on
\* to the buffer, or the wait joins the Notify's waiters
Poll(w, i) ==
    IF w.st.permit
    THEN Complete([w EXCEPT !.st.permit = FALSE, !.st.buffer = pop_front(@).rest],
                  i, pop_front(w.st.buffer).packet)
    ELSE [w EXCEPT !.st.waiters = Append(@, i), !.tk[i].pc = "waiting"]

\* a wait woken by notify_one runs: read() goes on to the buffer
Resume(w, i) ==
    Complete([w EXCEPT !.st.buffer = pop_front(@).rest], i, pop_front(w.st.buffer).packet)

RECURSIVE Without(_, _)
Without(q, i) ==
    IF q = <<>> THEN <<>>
    ELSE IF Head(q) = i THEN Without(Tail(q), i)
    ELSE <<Head(q)>> \o Without(Tail(q), i)

\* the sleep(timeout) branch of select! wins: the Notified future is dropped
\* (a wait that had been woken hands its notification on), the result is None
Timeout(w, i) ==
    LET w1 == IF w.tk[i].pc = "notified"
              THEN NotifyOne(w)
              ELSE [w EXCEPT !.st.waiters = Without(@, i)]
    IN  Complete(w1, i, NoPacket)

-----------------------------------------------------------------------------
(* State plumbing *)

Roles == {"client", "server"}

World(o) ==
    [st |-> stream[o], tk |-> task[o], wr |-> written[o], rd |-> readLog[o],
     cn |-> IF o \in DOMAIN conn THEN conn[o] ELSE <<>>]

Commit(o, w) ==
    /\ stream'  = [stream  EXCEPT ![o] = w.st]
    /\ task'    = [task    EXCEPT ![o] = w.tk]
    /\ written' = [written EXCEPT ![o] = w.wr]
    /\ readLog' = [readLog EXCEPT ![o] = w.rd]
    /\ conn'    = IF o \in DOMAIN conn THEN [conn EXCEPT ![o] = w.cn] ELSE conn

None == [o \in {} |-> 0]

-----------------------------------------------------------------------------
(* The waits: one step per poll of a spawned task or of a pending receive *)

TaskPoll(o, i) ==
    /\ o \in DOMAIN task /\ i \in DOMAIN task[o]
    /\ task[o][i].pc = "spawned"
    /\ Commit(o, Poll(World(o), i))
    /\ UNCHANGED <<script, eng, cur, rets, pre>>

TaskResume(o, i) ==
    /\ o \in DOMAIN task /\ i \in DOMAIN task[o]
    /\ task[o][i].pc = "notified"
    /\ Commit(o, Resume(World(o), i))
    /\ UNCHANGED <<script, eng, cur, rets, pre>>

TaskTimeout(o, i) ==
    /\ o \in DOMAIN task /\ i \in DOMAIN task[o]
    /\ task[o][i].pc \in {"waiting", "notified"}
    /\ Commit(o, Timeout(World(o), i))
    /\ UNCHANGED <<script, eng, cur, rets, pre>>

-----------------------------------------------------------------------------
(* InitChan: a writer and a reader of one PacketStream *)

ChanPackets ==
    {PacketNew(DATA, 1, <<1>>), PacketNew(DATA, 2, <<3>>), PacketNew(ACK, 1, <<>>)}

\* send_packet(packet), lib.rs 102-104
ChanSend(packet) ==
    /\ "chan" \in DOMAIN stream
    /\ Len(written["chan"]) < MaxWrites
    /\ Commit("chan", write(World("chan"), packet))
    /\ UNCHANGED <<script, eng, cur, rets, pre>>

\* receive_packet(timeout).await by the reader, once its previous receive returned
ChanReceive ==
    /\ "chan" \in DOMAIN stream
    /\ Len(task["chan"]) < MaxReads
    /\ \A i \in DOMAIN task["chan"] : task["chan"][i].pc = "done"
    /\ LET w == World("chan")
           w1 == [w EXCEPT !.tk = Append(@, [NewWait("receive") EXCEPT
                                                !.front = Front(w.st.buffer)])]
       IN  Commit("chan", Poll(w1, Len(w1.tk)))
    /\ UNCHANGED <<script, eng, cur, rets, pre>>

-----------------------------------------------------------------------------------------------------------------------------------------------------
(* handle_timeout running for a caller: one step per iteration of its loop *)

\* what action() returns to handle_timeout: the scripted action returns
\* script[k] at its k-th call; a routine's closure spawns its task and returns
\* Ok(()) (lib.rs 173, 201, 225, 267, 295)
ActionResult(c) ==
    IF c = "harness" THEN script[eng[c].calls + 1] ELSE "Ok"

LoopStep(c) ==
    /\ c \in DOMAIN eng
    /\ eng[c].pc = "loop"
    /\ LET e      == eng[c]
           invoke == HT_Continue(e)
           e1     == IF invoke THEN HT_Match(e, ActionResult(c)) ELSE HT_Exhausted(e)
       IN  /\ (invoke /\ c = "harness") => e.calls < MaxCalls
           /\ eng' = [eng EXCEPT ![c] = e1]
           /\ IF c \in Roles
              THEN /\ task' = IF invoke
                              THEN [task EXCEPT ![c] = Append(@, NewWait(cur[c]))]
                              ELSE task
                   /\ IF e1.pc = "ret"
                      THEN /\ rets' = [rets EXCEPT ![c] = Append(@,
                                          [routine |-> cur[c], result |-> e1.result,
                                           retries |-> e1.retries])]
                           /\ cur' = [cur EXCEPT ![c] = "none"]
                      ELSE UNCHANGED <<rets, cur>>
              ELSE UNCHANGED <<task, rets, cur>>
    /\ UNCHANGED <<script, conn, stream, written, readLog, pre>>

-----------------------------------------------------------------------------
(* The routines of Client and Server: what each does before it awaits       *)
(* handle_timeout                                                           *)

Connection_new == [client_isn |-> 0, server_isn |-> 0]

Chunks == {<<1>>}

RoutineNames(r) == [k \in DOMAIN rets[r] |-> rets[r][k].routine]

Count(q, x) == Cardinality({k \in DOMAIN q : q[k] = x})

\* the order in which a caller runs the routines: connect, then send-chunk for
\* each segment, then close; accept, then the receive loop
MayCall(r, routine) ==
    LET done == RoutineNames(r)
        last == IF done = <<>> THEN "none" ELSE done[Len(done)]
    IN  /\ r \in DOMAIN cur
        /\ cur[r] = "none"
        /\ CASE routine = "client.handshake"    -> done = <<>>
             [] routine = "client.send_data"    ->
                    /\ last \in {"client.handshake", "client.send_data"}
                    /\ Count(done, "client.send_data") < MaxChunks
             [] routine = "client.terminate"    ->
                    last \in {"client.handshake", "client.send_data"}
             [] routine = "server.handshake"    -> done = <<>>
             [] routine = "server.receive_data" ->
                    /\ last \in {"server.handshake", "server.receive_data"}
                    /\ Count(done, "server.receive_data") < MaxRecv

Enter(r, routine) ==
    /\ cur' = [cur EXCEPT ![r] = routine]
    /\ eng' = [eng EXCEPT ![r] = HT_Start]
    /\ UNCHANGED <<script, rets, pre>>

\* Client::handshake, lib.rs 147-153
ClientHandshake ==
    /\ MayCall("client", "client.handshake")
    /\ LET w == World("client")
       IN  Commit("client", write(w, PacketNew(SYN, w.cn.client_isn, <<>>)))
    /\ Enter("client", "client.handshake")

\* Client::send_data, lib.rs 179-186
ClientSendData(data) ==
    /\ MayCall("client", "client.send_data")
    /\ LET w      == World("client")
           seq_no == w.cn.client_isn + 1
       IN  Commit("client", write(w, PacketNew(DATA, seq_no, data)))
    /\ Enter("client", "client.send_data")

\* Client::terminate, lib.rs 207-212
ClientTerminate ==
    /\ MayCall("client", "client.terminate")
    /\ LET w == World("client")
       IN  Commit("client", write(w, PacketNew(FIN, w.cn.client_isn + 1, <<>>)))
    /\ Enter("client", "client.terminate")

\* Server::handshake, lib.rs 245-246
ServerHandshake ==
    /\ MayCall("server", "server.handshake")
    /\ Enter("server", "server.handshake")
    /\ UNCHANGED <<conn, stream, task, written, readLog>>

\* Server::receive_data, lib.rs 273-274
ServerReceiveData ==
    /\ MayCall("server", "server.receive_data")
    /\ Enter("server", "server.receive_data")
    /\ UNCHANGED <<conn, stream, task, written, readLog>>

-----------------------------------------------------------------------------
(* Initial states *)

Idle == [pc |-> "idle", retries |-> 0, calls |-> 0, result |-> "none"]

\* handle_timeout(action, timeout) has just been called with a scripted action
InitRetry ==
    /\ script \in [1..MaxCalls -> Outcome]
    /\ eng = [c \in {"harness"} |-> HT_Start]
    /\ cur = None /\ rets = None /\ conn = None
    /\ stream = None /\ task = None /\ written = None /\ readLog = None
    /\ pre = None

\* PacketStream::new()
InitChan ==
    /\ script = None /\ eng = None /\ cur = None /\ rets = None /\ conn = None
    /\ stream  = [o \in {"chan"} |-> PacketStreamNew]
    /\ task    = [o \in {"chan"} |-> <<>>]
    /\ written = [o \in {"chan"} |-> <<>>]
    /\ readLog = [o \in {"chan"} |-> <<>>]
    /\ pre     = [o \in {"chan"} |-> <<>>]

\* the packets a stream may hold when it is handed to Client::new / Server::new
ClientPrePackets ==
    {PacketNew(SYN_ACK, 5, <<>>), PacketNew(ACK, 1, <<>>), PacketNew(NAK, 1, <<>>),
     PacketNew(FIN, 6, <<>>)}

ServerPrePackets ==
    {PacketNew(SYN, 0, <<>>), PacketNew(DATA, 1, <<1>>),
     [PacketNew(DATA, 1, <<1>>) EXCEPT !.parity = 0],
     PacketNew(RETRANSMISSION, 1, <<1>>),
     PacketNew(ACK, 6, <<>>), PacketNew(FIN, 1, <<>>)}

SeqsUpTo(S, n) == UNION {[1..k -> S] : k \in 0..n}

\* a stream into which q was written, packet by packet, before any read
Preloaded(q) == [buffer |-> q, permit |-> q /= <<>>, waiters |-> <<>>]

\* the objects a program builds around the streams q[o]
Built(q) ==
    /\ script = None
    /\ pre     = q
    /\ stream  = [r \in DOMAIN q |-> Preloaded(q[r])]
    /\ written = q
    /\ task    = [r \in DOMAIN q |-> <<>>]
    /\ readLog = [r \in DOMAIN q |-> <<>>]
    /\ conn    = [r \in DOMAIN q |-> Connection_new]
    /\ eng     = [r \in DOMAIN q |-> Idle]
    /\ cur     = [r \in DOMAIN q |-> "none"]
    /\ rets    = [r \in DOMAIN q |-> <<>>]

\* Client::new(stream)
InitClient ==
    \E q \in SeqsUpTo(ClientPrePackets, MaxPreload) : Built([r \in {"client"} |-> q])

\* Server::new(stream)
InitServer ==
    \E q \in SeqsUpTo(ServerPrePackets, MaxPreload) : Built([r \in {"server"} |-> q])

\* FileTransfer: Server::new(PacketStream::new()) and Client::new(PacketStream::new()),
\* transfer.rs 19-20 and 43-44
InitTransfer == Built([r \in Roles |-> <<>>])

InitProto == InitClient \/ InitServer \/ InitTransfer

Init == InitRetry \/ InitChan \/ InitProto

Loop     == \E c \in DOMAIN eng : LoopStep(c)
Send     == \E p \in ChanPackets : ChanSend(p)
Polls    == \E o \in DOMAIN task : \E i \in DOMAIN task[o] : TaskPoll(o, i)
Resumes  == \E o \in DOMAIN task : \E i \in DOMAIN task[o] : TaskResume(o, i)
Timeouts == \E o \in DOMAIN task : \E i \in DOMAIN task[o] : TaskTimeout(o, i)
SendData == \E data \in Chunks : ClientSendData(data)

\* handle_timeout with a scripted action
NextRetry == Loop

\* one PacketStream, its writer and its reader
NextChan == Send \/ ChanReceive \/ Resumes \/ Timeouts

\* the routines and the tasks they spawn
NextProto ==
    \/ ClientHandshake \/ SendData \/ ClientTerminate
    \/ ServerHandshake \/ ServerReceiveData
    \/ Loop \/ Polls \/ Resumes \/ Timeouts

Next ==
    \/ Loop \/ Send \/ ChanReceive \/ Polls \/ Resumes \/ Timeouts
    \/ ClientHandshake \/ SendData \/ ClientTerminate
    \/ ServerHandshake \/ ServerReceiveData

SpecRetry == InitRetry /\ [][NextRetry]_vars

SpecChan == InitChan /\ [][NextChan]_vars

SpecProto == InitProto /\ [][NextProto]_vars

Spec == Init /\ [][Next]_vars

\* tokio runs every task that can run and fires every timer
Fairness ==
    /\ WF_vars(Loop) /\ WF_vars(Polls) /\ WF_vars(Resumes) /\ WF_vars(Timeouts)

\* every program under the scheduler
LiveSpecAll == Spec /\ Fairness

\* the programs with one PacketStream each: the scripted handle_timeout, the
\* bare stream, a server on any stream, a client on a fresh stream or on one
\* that already holds the peer's SYN_ACK
InitLive ==
    \/ InitRetry
    \/ InitChan
    \/ InitServer
    \/ \E q \in {<<>>, <<PacketNew(SYN_ACK, 5, <<>>)>>} : Built([r \in {"client"} |-> q])

LiveSpec == InitLive /\ [][Next]_vars /\ Fairness

-----------------------------------------------------------------------------
(* send_with_retry (transfer.rs 62-82): one step per iteration of its loop, *)
(* one step per sleep.  send_file builds a Client and calls transmit, which *)
(* src/ does not define: its k-th call returns script[k].                   *)

\* tokio::time::sleep(Duration::from_secs(1))
RetryDelay == 1

\* let mut retry_count = 0
SWR_Start(max_retries) ==
    [pc |-> "while", retry_count |-> 0, max_retries |-> max_retries,
     calls |-> 0, delays |-> <<>>, result |-> "none"]

\* while retry_count < max_retries
SWR_Continue(s) == s.retry_count < s.max_retries

SWR_Match_AlwaysSleep(s, r) ==
    IF r = "Ok" THEN [s EXCEPT !.calls = @ + 1, !.pc = "ret", !.result = "Ok"]
    ELSE [s EXCEPT !.calls = @ + 1, !.retry_count = @ + 1, !.pc = "sleep"]

\* match transfer.send_file(data.clone()).await, which returned r
SWR_Match(s, r) ==
    IF r = "Ok" THEN [s EXCEPT !.calls = @ + 1, !.pc = "ret", !.result = "Ok"]
    ELSE LET s1 == [s EXCEPT !.calls = @ + 1, !.retry_count = @ + 1]
         IN  IF s1.retry_count < s1.max_retries
             THEN [s1 EXCEPT !.pc = "sleep"]
             ELSE [s1 EXCEPT !.pc = "ret", !.result = r]

\* the sleep of the Err arm, then round the loop again
SWR_Sleep(s) == [s EXCEPT !.delays = Append(@, RetryDelay), !.pc = "while"]

\* the Err after the loop
SWR_Exhausted(s) == [s EXCEPT !.pc = "ret", !.result = "Other: Max retries exceeded"]

SendWithRetryStep ==
    /\ "send_with_retry" \in DOMAIN eng
    /\ eng["send_with_retry"].pc = "while"
    /\ LET s == eng["send_with_retry"]
       IN  eng' = [eng EXCEPT !["send_with_retry"] =
                      IF SWR_Continue(s) THEN SWR_Match(s, script[s.calls + 1])
                      ELSE SWR_Exhausted(s)]
    /\ UNCHANGED <<script, cur, rets, conn, stream, task, written, readLog, pre>>

SendWithRetrySleep ==
    /\ "send_with_retry" \in DOMAIN eng
    /\ eng["send_with_retry"].pc = "sleep"
    /\ eng' = [eng EXCEPT !["send_with_retry"] = SWR_Sleep(@)]
    /\ UNCHANGED <<script, cur, rets, conn, stream, task, written, readLog, pre>>

\* send_with_retry(data, max_retries) has just been called
InitSendRetry ==
    /\ script \in [1..MaxCalls -> Outcome]
    /\ \E max_retries \in 0..MaxCalls :
          eng = [c \in {"send_with_retry"} |-> SWR_Start(max_retries)]
    /\ cur = None /\ rets = None /\ conn = None
    /\ stream = None /\ task = None /\ written = None /\ readLog = None
    /\ pre = None

NextSendRetry == SendWithRetryStep \/ SendWithRetrySleep

SpecSendRetry == InitSendRetry /\ [][NextSendRetry]_vars

-----------------------------------------------------------------------------
(* Packet::new (lib.rs 34-38) on scripted arguments, the packet handed to   *)
(* send_packet on a fresh stream                                            *)

Bytes == {0, 1, 3, 128, 255}

Payloads == SeqsUpTo(Bytes, MaxPayload)

PacketArgs == [packet_type : PacketType, sequence_no : {0, 1}, data : Payloads]

\* Packet::new(packet_type, sequence_no, data), then send_packet(packet)
PacketSend ==
    /\ "wire" \in DOMAIN stream
    /\ Len(written["wire"]) < Len(script)
    /\ LET a == script[Len(written["wire"]) + 1]
       IN  Commit("wire", write(World("wire"),
                                PacketNew(a.packet_type, a.sequence_no, a.data)))
    /\ UNCHANGED <<script, eng, cur, rets, pre>>

InitPacket ==
    /\ script \in [1..1 -> PacketArgs]
    /\ eng = None /\ cur = None /\ rets = None /\ conn = None
    /\ stream  = [o \in {"wire"} |-> PacketStreamNew]
    /\ task    = [o \in {"wire"} |-> <<>>]
    /\ written = [o \in {"wire"} |-> <<>>]
    /\ readLog = [o \in {"wire"} |-> <<>>]
    /\ pre     = [o \in {"wire"} |-> <<>>]

NextPacket == PacketSend

SpecPacket == InitPacket /\ [][NextPacket]_vars

-----------------------------------------------------------------------------
(* The retry engine *)

Harness == eng["harness"]

\* every call of action() made so far reported a timeout
OnlyTimeouts == \A k \in 1..Harness.calls : script[k] = "TimedOut"

\* C1: while every call of the action reports a timeout, handle_timeout calls it
\* at most 3 times and never returns Ok; when it returns it has called it exactly
\* 3 times and returns the TimedOut error.
C1_ThreeAttemptsThenTimedOut ==
    OnlyTimeouts =>
        /\ Harness.calls <= MaxAttempts
        /\ Harness.result /= "Ok"
        /\ Harness.pc = "ret" => (Harness.calls = MaxAttempts /\ Harness.result = "TimedOut")

C1_Witness ==
    OnlyTimeouts /\ Harness.pc = "ret" /\ Harness.calls = MaxAttempts

\* the last call of action() failed with something other than a timeout, after
\* nothing but timeouts
FailedHard ==
    /\ Harness.calls >= 1
    /\ script[Harness.calls] \notin {"Ok", "TimedOut"}
    /\ \A k \in 1..(Harness.calls - 1) : script[k] = "TimedOut"

\* C3: once a call of the action has failed with an error that is no timeout,
\* handle_timeout has returned that very error: it makes no further call, and
\* retries counts the timeouts before it and nothing else.
C3_OtherErrorReturnedAtOnce ==
    FailedHard =>
        /\ Harness.pc = "ret"
        /\ Harness.result = script[Harness.calls]
        /\ Harness.retries = Harness.calls - 1

C3_Witness ==
    FailedHard /\ Harness.calls = MaxAttempts /\ Harness.pc = "ret"

-----------------------------------------------------------------------------
(* The channel *)

IsPrefix(p, q) == Len(p) <= Len(q) /\ \A k \in 1..Len(p) : p[k] = q[k]

\* C4: the packets the reads of a stream returned, in order, are a prefix of the
\* packets written to it, in order.
C4_ReadsArePrefixOfWrites ==
    IsPrefix(readLog["chan"], written["chan"])

C4_Witness ==
    /\ Len(readLog["chan"]) >= 2
    /\ Len(written["chan"]) > Len(readLog["chan"])
    /\ readLog["chan"][1] /= readLog["chan"][2]

\* C5: a receive issued while the buffer holds a packet returns that front
\* packet (never None).
C5_ReceiveReturnsBufferedPacket ==
    \A i \in DOMAIN task["chan"] :
        (task["chan"][i].pc = "done" /\ task["chan"][i].front /= NoPacket)
            => task["chan"][i].got = task["chan"][i].front

-----------------------------------------------------------------------------
(* The routines *)

Has(r) == r \in DOMAIN conn

\* the packets role r passed to send_packet, in order
Sent(r) == SubSeq(written[r], Len(pre[r]) + 1, Len(written[r]))

IsData(p) == p.packet_type = DATA

IsSendDataWait(t) == t.kind = "client.send_data"

Pending(r) == {i \in DOMAIN task[r] : task[r][i].pc /= "done"}

Finished(r, program) == cur[r] = "none" /\ RoutineNames(r) = program /\ Pending(r) = {}

\* C2: a client routine that gets no response from the peer does not return Ok
\* (stated for a client whose stream was empty when it was built and into which
\* nobody but the client writes).
C2_NoResponseIsAnError ==
    (Has("client") /\ pre["client"] = <<>>) =>
        \A k \in DOMAIN rets["client"] : rets["client"][k].result /= "Ok"

\* C6: when FileTransfer's client has run handshake, send_data, terminate and its
\* server handshake and receive_data, over fresh streams, and every wait is over,
\* every routine returned Ok with no retry, the client's handshake wait ended in
\* "connection established", its terminate wait got the ACK of its FIN, and the
\* server got the FIN.
C6_LosslessTransferCompletes ==
    ( /\ Has("client") /\ Has("server")
      /\ Finished("client", <<"client.handshake", "client.send_data", "client.terminate">>)
      /\ Finished("server", <<"server.handshake">> \o [k \in 1..MaxRecv |-> "server.receive_data"]) )
    =>
    /\ \A r \in Roles : \A k \in DOMAIN rets[r] :
            rets[r][k].result = "Ok" /\ rets[r][k].retries = 0
    /\ task["client"][1].result = "Ok"
    /\ task["client"][3].got.packet_type = ACK
    /\ \E k \in DOMAIN readLog["server"] : readLog["server"][k].packet_type = FIN

\* C7: a role never has two receive waits pending, and a routine that has
\* returned has no wait pending.
C7_OneOutstandingOperation ==
    \A r \in Roles : Has(r) =>
        /\ Cardinality(Pending(r)) <= 1
        /\ cur[r] = "none" => Pending(r) = {}

\* C9: when the wait of the client's handshake got a packet that is no SYN_ACK,
\* handshake did not return Ok and the client sent no ACK.
C9_NonSynAckFailsConnect ==
    ( /\ Has("client")
      /\ Len(task["client"]) >= 1 /\ Len(rets["client"]) >= 1
      /\ task["client"][1].pc = "done"
      /\ task["client"][1].got.packet_type \notin {"None", SYN_ACK} )
    =>
    /\ rets["client"][1].result /= "Ok"
    /\ \A k \in DOMAIN Sent("client") : Sent("client")[k].packet_type /= ACK

\* C10: of two successive send_data calls whose waits both got an ACK, the second
\* sent its DATA packet with a greater sequence number than the first.
C10_DataSequenceIncreases ==
    Has("client") =>
        LET d == SelectSeq(Sent("client"), IsData)
            t == SelectSeq(task["client"], IsSendDataWait)
        IN  \A k \in 1..(Len(t) - 1) :
                (t[k].got.packet_type = ACK /\ t[k + 1].got.packet_type = ACK)
                    => d[k + 1].sequence_no > d[k].sequence_no

-----------------------------------------------------------------------------
(* Retransmission, the receive loop and the closing handshakes *)

\* role r has run its last routine and none of its waits is pending
Over(r) ==
    /\ Has(r) /\ cur[r] = "none" /\ Pending(r) = {}
    /\ rets[r] /= <<>>
    /\ \/ rets[r][Len(rets[r])].routine = "client.terminate"
       \/ Count(RoutineNames(r), "server.receive_data") = MaxRecv

\* C11: when the client's program is over, every send_data call whose wait got
\* a NAK has sent a RETRANSMISSION packet with the sequence number and the
\* payload of its DATA packet.
C11_NakIsRetransmitted ==
    Over("client") =>
        LET d == SelectSeq(Sent("client"), IsData)
            t == SelectSeq(task["client"], IsSendDataWait)
        IN  \A k \in DOMAIN t :
                t[k].got.packet_type = NAK =>
                    \E j \in DOMAIN Sent("client") :
                        /\ Sent("client")[j].packet_type = RETRANSMISSION
                        /\ Sent("client")[j].sequence_no = d[k].sequence_no
                        /\ Sent("client")[j].data = d[k].data

IsChunk(p) == p.packet_type \in {DATA, RETRANSMISSION}

IsReply(p) == p.packet_type \in {ACK, NAK}

\* the receive_data waits of the server that ended with a DATA or a
\* RETRANSMISSION packet
ChunkWaits ==
    {i \in DOMAIN task["server"] :
        /\ task["server"][i].kind = "server.receive_data"
        /\ task["server"][i].pc = "done"
        /\ IsChunk(task["server"][i].got)}

\* C12: the server has sent one ACK or NAK for each DATA or RETRANSMISSION packet
\* its receive_data waits got, with that packet's sequence number: an ACK when
\* the packet's parity verifies, a NAK when it does not.
C12_OneReplyPerChunk ==
    Has("server") =>
        LET replies == SelectSeq(Sent("server"), IsReply)
        IN  /\ Len(replies) = Cardinality(ChunkWaits)
            /\ \A i \in ChunkWaits :
                  \E j \in DOMAIN replies :
                      /\ replies[j].sequence_no = task["server"][i].got.sequence_no
                      /\ replies[j].packet_type =
                            IF verify_parity(task["server"][i].got) THEN ACK ELSE NAK

\* C13: a receive_data call whose wait got a SYN, SYN_ACK, ACK, NAK or RST
\* packet did not return Ok.
C13_StrayKindFailsReceive ==
    Has("server") =>
        \A i \in DOMAIN task["server"] :
            ( /\ task["server"][i].kind = "server.receive_data"
              /\ task["server"][i].pc = "done"
              /\ task["server"][i].got.packet_type \in {SYN, SYN_ACK, ACK, NAK, RST} )
            => rets["server"][i].result /= "Ok"

\* C14: when terminate has returned Ok the client has sent its FIN and, after
\* it, an ACK, and has read an ACK and, after it, a FIN.
C14_CloseReturnsAfterFourSteps ==
    Has("client") =>
        \A k \in DOMAIN rets["client"] :
            (rets["client"][k].routine = "client.terminate" /\ rets["client"][k].result = "Ok")
            =>
            /\ \E f, g \in DOMAIN Sent("client") :
                  /\ f < g
                  /\ Sent("client")[f].packet_type = FIN
                  /\ Sent("client")[g].packet_type = ACK
            /\ \E a, b \in DOMAIN readLog["client"] :
                  /\ a < b
                  /\ readLog["client"][a].packet_type = ACK
                  /\ readLog["client"][b].packet_type = FIN

\* C15: when the server's handshake has returned Ok the server has read a SYN,
\* has sent a SYN_ACK, and has read an ACK after the SYN.
C15_AcceptReturnsAfterAck ==
    Has("server") =>
        \A k \in DOMAIN rets["server"] :
            (rets["server"][k].routine = "server.handshake" /\ rets["server"][k].result = "Ok")
            =>
            /\ \E j \in DOMAIN Sent("server") : Sent("server")[j].packet_type = SYN_ACK
            /\ \E a, b \in DOMAIN readLog["server"] :
                  /\ a < b
                  /\ readLog["server"][a].packet_type = SYN
                  /\ readLog["server"][b].packet_type = ACK

\* C16: when the server's program is over and one of its receive_data waits got
\* a FIN, the server has sent an ACK and, after it, its own FIN.
C16_FinIsAnsweredAckThenFin ==
    ( /\ Over("server")
      /\ \E i \in DOMAIN task["server"] :
            /\ task["server"][i].kind = "server.receive_data"
            /\ task["server"][i].got.packet_type = FIN )
    =>
    \E f, g \in DOMAIN Sent("server") :
        /\ f < g
        /\ Sent("server")[f].packet_type = ACK
        /\ Sent("server")[g].packet_type = FIN

\* C20: a role reads only what its peer put into its stream: the reads of a role
\* never reach the packets the role itself sent (those behind the packets the
\* stream held when the role was built).
C20_NoRoleReadsItsOwnPackets ==
    \A r \in Roles : Has(r) => Len(readLog[r]) <= Len(pre[r])

-----------------------------------------------------------------------------
(* send_with_retry *)

SWR == eng["send_with_retry"]

\* C17: send_with_retry(data, n) calls send_file at most n times and never
\* again after a call that returned Ok; it returns Ok exactly when its last call
\* did; when it returns an error it has made n calls and returns the error of
\* the n-th (for n = 0: no call, and an error); every delay is the same, a delay
\* is taken only between two calls, so the delays are one fewer than the calls.
C17_AtMostNAttempts ==
    LET n == SWR.max_retries
        a == SWR.calls
    IN  /\ a <= n
        /\ \A k \in 1..(a - 1) : script[k] /= "Ok"
        /\ \A k \in DOMAIN SWR.delays : SWR.delays[k] = SWR.delays[1]
        /\ SWR.pc = "while" => Len(SWR.delays) = a
        /\ SWR.pc = "sleep" => (Len(SWR.delays) = a - 1 /\ a < n)
        /\ SWR.pc = "ret" =>
              /\ SWR.result = "Ok" <=> (a >= 1 /\ script[a] = "Ok")
              /\ SWR.result /= "Ok" =>
                    /\ a = n
                    /\ n >= 1 => SWR.result = script[n]
              /\ Len(SWR.delays) = IF a = 0 THEN 0 ELSE a - 1

\* three calls, all failed, the third with another error than the first two
C17_Witness ==
    /\ SWR.pc = "ret" /\ SWR.max_retries = 3 /\ SWR.calls = 3
    /\ script[1] = "TimedOut" /\ script[2] = "TimedOut" /\ script[3] = "InvalidData"
    /\ SWR.result = "InvalidData"
    /\ Len(SWR.delays) = 2

-----------------------------------------------------------------------------
(* The integrity byte *)

\* the payload data with bit b of its i-th byte flipped
FlipBit(data, i, b) ==
    [data EXCEPT ![i] = IF (@ \div (2 ^ b)) % 2 = 1 THEN @ - 2 ^ b ELSE @ + 2 ^ b]

\* C18: the parity byte of every constructed packet is 0 (0x00) when its
\* payload has an even number of set bits and 255 (0xFF) when it has an odd
\* number.
C18_ParityByteIs00OrFF ==
    "wire" \in DOMAIN written =>
        \A k \in DOMAIN written["wire"] :
            written["wire"][k].parity =
                IF SumOnes(written["wire"][k].data) % 2 = 0 THEN 0 ELSE 255

\* C19: the parity byte of every constructed packet verifies against its
\* payload, and whichever single bit of the payload is flipped, the parity
\* computed for the flipped payload differs from the packet's and the packet
\* with the flipped payload does not verify.
C19_SingleBitFlipDetected ==
    "wire" \in DOMAIN written =>
        \A k \in DOMAIN written["wire"] :
            LET p == written["wire"][k]
            IN  /\ verify_parity(p)
                /\ \A i \in DOMAIN p.data : \A b \in 0..7 :
                      /\ check_parity(FlipBit(p.data, i, b)) /= p.parity
                      /\ ~verify_parity([p EXCEPT !.data = FlipBit(p.data, i, b)])

\* a packet built on a two-byte payload with 9 set bits
C19_Witness ==
    /\ "wire" \in DOMAIN written
    /\ written["wire"] /= <<>>
    /\ written["wire"][1].data = <<255, 1>>
    /\ written["wire"][1].parity = 15

-----------------------------------------------------------------------------
(* Termination *)

\* no handle_timeout call is in its loop and no receive wait is pending
Quiet ==
    /\ \A c \in DOMAIN eng : eng[c].pc /= "loop"
    /\ \A o \in DOMAIN task : \A i \in DOMAIN task[o] : task[o][i].pc = "done"

\* C8: under the scheduler's fairness every handle_timeout call returns and every
\* receive wait ends, whatever the stream delivers: from some point on nothing
\* is left waiting.
C8_EveryStepReturns == <>[]Quiet

\* a server built on an empty stream: its wait ended with None, its routine
\* returned, nothing is left waiting
C8_Witness ==
    /\ Has("server") /\ pre["server"] = <<>>
    /\ Len(rets["server"]) = 1 + MaxRecv
    /\ \A i \in DOMAIN task["server"] : task["server"][i].got = NoPacket
    /\ Quiet

====
